---- MODULE Spec2Model ----
(***************************************************************************)
(* Model of c_func_parser: the declaration model (CObj), the function      *)
(* model (CFunc) and the AST extractor (Parser).                           *)
(*                                                                         *)
(* Text is modelled as a sequence of tokens: every Python string literal   *)
(* of the source (" ", "*", "[]", ", ", "(", ")", ";", " ret = ",          *)
(* "struct ") is one token, and every identifier (a name, a type name, a   *)
(* qualifier) is one token.  String concatenation is \o, the comparison    *)
(* with "void" is equality with <<"void">>, and endswith("*") looks at the *)
(* last token.                                                             *)
(***************************************************************************)
EXTENDS Integers, Sequences, FiniteSets, TLC

VARIABLES ext, idx, func_list, status, self, call, out

vars == <<ext, idx, func_list, status, self, call, out>>

parserVars == <<ext, idx, func_list, status>>

renderVars == <<self, call, out>>

(***************************************************************************)
(* Bounds of the model.                                                    *)
(***************************************************************************)
\* Largest pointer depth and largest array depth of a rendered Declaration.
MaxLayers == 2

\* Largest pointer depth + array depth of a Function and of its parameters.
MaxFuncLayers == 1

\* Largest number of parameters of a rendered Function.
MaxParams == 2

\* Largest number of top-level nodes of a translation unit.
MaxExt == 3

\* Largest number of array-of and pointer-to layers of a resolved type chain.
MaxChain == 3

(***************************************************************************)
(* CObj.py                                                                 *)
(***************************************************************************)
\* " ".join(tokens)
RECURSIVE JoinSpace(_)
JoinSpace(tokens) ==
    IF tokens = <<>> THEN <<>>
    ELSE IF Len(tokens) = 1 THEN <<tokens[1]>>
    ELSE <<tokens[1], " ">> \o JoinSpace(Tail(tokens))

\* for i in range(n): s += tok
RECURSIVE AppendTimes(_, _, _)
AppendTimes(s, tok, n) ==
    IF n <= 0 THEN s ELSE AppendTimes(s \o <<tok>>, tok, n - 1)

\* A plausible slip: array_as_ptr is ignored, the asterisk run is always
\* pointer_layers long.
type_to_str_NoArrayFold(obj, space_before_ptr, array_as_ptr) ==
    LET pointer_layers == obj.pointer_layers
        type_str == IF pointer_layers # 0 /\ space_before_ptr
                    THEN obj.type \o <<" ">>
                    ELSE obj.type
    IN  IF pointer_layers # 0
        THEN AppendTimes(type_str, "*", pointer_layers)
        ELSE type_str

type_to_str(obj, space_before_ptr, array_as_ptr) ==
    LET pointer_layers == IF array_as_ptr
                          THEN obj.pointer_layers + obj.array_layers
                          ELSE obj.pointer_layers
        type_str == IF pointer_layers # 0 /\ space_before_ptr
                    THEN obj.type \o <<" ">>
                    ELSE obj.type
    IN  IF pointer_layers # 0
        THEN AppendTimes(type_str, "*", pointer_layers)
        ELSE type_str

quals_to_str(obj) == JoinSpace(obj.quals)

align_to_str(obj) == JoinSpace(obj.align)

storage_to_str(obj) == JoinSpace(obj.storage)

\* A plausible slip: the brackets are appended whatever with_array says.
name_to_str_AlwaysArray(obj, with_array) ==
    AppendTimes(<<obj.name>>, "[]", obj.array_layers)

name_to_str(obj, with_array) ==
    IF with_array
    THEN AppendTimes(<<obj.name>>, "[]", obj.array_layers)
    ELSE <<obj.name>>

\* type_.endswith("*")
EndsWithStar(s) == Len(s) > 0 /\ s[Len(s)] = "*"

\* A plausible slip: the name is dropped whenever the base type is void,
\* whatever the pointer wrapping.
to_str_VoidBase(obj, space_before_ptr, array_as_ptr, space_after_ptr, semicolon, with_array) ==
    LET quals == quals_to_str(obj)
        decl1 == IF quals # <<>> THEN quals \o <<" ">> ELSE <<>>
        align == align_to_str(obj)
        decl2 == IF align # <<>> THEN decl1 \o align \o <<" ">> ELSE decl1
        storage == storage_to_str(obj)
        decl3 == IF storage # <<>> THEN decl2 \o storage \o <<" ">> ELSE decl2
        type_ == type_to_str(obj, space_before_ptr, array_as_ptr)
        name == name_to_str(obj, with_array)
        decl4 == IF obj.type # <<"void">>
                 THEN IF EndsWithStar(type_) /\ ~space_after_ptr
                      THEN decl3 \o type_ \o name
                      ELSE decl3 \o type_ \o <<" ">> \o name
                 ELSE decl3 \o type_to_str(obj, TRUE, FALSE)
    IN  IF semicolon THEN decl4 \o <<";">> ELSE decl4

to_str(obj, space_before_ptr, array_as_ptr, space_after_ptr, semicolon, with_array) ==
    LET quals == quals_to_str(obj)
        decl1 == IF quals # <<>> THEN quals \o <<" ">> ELSE <<>>
        align == align_to_str(obj)
        decl2 == IF align # <<>> THEN decl1 \o align \o <<" ">> ELSE decl1
        storage == storage_to_str(obj)
        decl3 == IF storage # <<>> THEN decl2 \o storage \o <<" ">> ELSE decl2
        type_ == type_to_str(obj, space_before_ptr, array_as_ptr)
        name == name_to_str(obj, with_array)
        decl4 == IF type_ # <<"void">>
                 THEN IF EndsWithStar(type_) /\ ~space_after_ptr
                      THEN decl3 \o type_ \o name
                      ELSE decl3 \o type_ \o <<" ">> \o name
                 ELSE decl3 \o type_to_str(obj, TRUE, FALSE)
    IN  IF semicolon THEN decl4 \o <<";">> ELSE decl4

\* CObj.__str__: to_str() with every parameter at its default value.
CObj_str(obj) == to_str(obj, TRUE, FALSE, FALSE, FALSE, FALSE)

(***************************************************************************)
(* CFunc.py                                                                *)
(***************************************************************************)
funcspec_to_str(func) == JoinSpace(func.funcspec)

\* ", ".join(items), every item a text
RECURSIVE JoinComma(_)
JoinComma(items) ==
    IF items = <<>> THEN <<>>
    ELSE IF Len(items) = 1 THEN items[1]
    ELSE items[1] \o <<", ">> \o JoinComma(Tail(items))

params_to_str(func) ==
    JoinComma([i \in 1..Len(func.params) |->
                  to_str(func.params[i], TRUE, FALSE, FALSE, FALSE, TRUE)])

\* The prefix assembled by lines 96-108 of CFunc.to_str.
CFunc_prefix(func) ==
    LET quals == quals_to_str(func)
        decl1 == IF quals # <<>> THEN quals \o <<" ">> ELSE <<>>
        storage == storage_to_str(func)
        decl2 == IF storage # <<>> THEN decl1 \o storage \o <<" ">> ELSE decl1
        funcspec == funcspec_to_str(func)
    IN  IF funcspec # <<>> THEN decl2 \o funcspec \o <<" ">> ELSE decl2

\* A plausible slip (or fix): line 109 written with += instead of =, so the
\* prefix reaches the result.
CFunc_to_str_KeepPrefix(func, semicolon) ==
    LET decl == CFunc_prefix(func)
                \o type_to_str(func, TRUE, FALSE) \o <<" ">>
                \o name_to_str(func, TRUE)
                \o <<"(">> \o params_to_str(func) \o <<")">>
    IN  IF semicolon THEN decl \o <<";">> ELSE decl

\* Line 109 assigns decl anew: the prefix of lines 96-108 is discarded.
CFunc_to_str(func, semicolon) ==
    LET discarded == CFunc_prefix(func)
        decl == type_to_str(func, TRUE, FALSE) \o <<" ">>
                \o name_to_str(func, TRUE)
                \o <<"(">> \o params_to_str(func) \o <<")">>
    IN  IF semicolon THEN decl \o <<";">> ELSE decl

\* CFunc.__str__
CFunc_str(func) == CFunc_to_str(func, TRUE)

get_return_type(func) == func.return_type

\* The loop of lines 147-153, i counted from 1.
RECURSIVE func_param_loop(_, _, _)
func_param_loop(func, i, func_param) ==
    LET param_nums == Len(func.params) IN
    IF i > param_nums THEN func_param
    ELSE IF i < param_nums
         THEN IF type_to_str(func.params[i], TRUE, FALSE) # <<"void">>
              THEN func_param_loop(func, i + 1,
                       func_param \o <<func.params[i].name>> \o <<", ">>)
              ELSE func_param_loop(func, i + 1, func_param)
         ELSE IF type_to_str(func.params[i], TRUE, FALSE) # <<"void">>
              THEN func_param_loop(func, i + 1,
                       func_param \o <<func.params[i].name>>)
              ELSE func_param_loop(func, i + 1, func_param)

gen_func_call(func) ==
    LET func_param == func_param_loop(func, 1, <<>>) IN
    IF type_to_str(func, TRUE, FALSE) # <<"void">>
    THEN type_to_str(func, TRUE, FALSE) \o <<" ret = ">> \o <<func.name>>
         \o <<"(">> \o func_param \o <<");">>
    ELSE <<func.name>> \o <<"(">> \o func_param \o <<");">>

(***************************************************************************)
(* Parser.py                                                               *)
(*                                                                         *)
(* A syntax-tree node is a record.  kind is the node's class; type is the  *)
(* chain of node classes reached by following .type from the node,         *)
(* outermost first (int *a[] is <<"ArrayDecl", "PtrDecl", "TypeDecl",      *)
(* "IdentifierType">>); names holds the terminal node's names (an          *)
(* IdentifierType's names, a Struct's, Union's or Enum's tag); args is the *)
(* FuncDecl's args, which pycparser leaves None for an empty list "()".    *)
(* A FuncDef node carries the fields of its decl.                          *)
(***************************************************************************)
\* Python's None as a name (a Typename has no name).
None == "<None>"

NoArgs == [none |-> TRUE, params |-> <<>>]

ParamList(params) == [none |-> FALSE, params |-> params]

\* The exception classes _add_to_func_list catches (lines 314-321).
ParserNotImplementedError == {"ParserNotImplementedError", "EllipsisParamException"}

Raise(exc) ==
    [raised |-> exc, type |-> <<>>, array_layers |-> 0, pointer_layers |-> 0]

\* while isinstance(child_node, K): child_node = child_node.type
RECURSIVE StripLayers(_, _)
StripLayers(chain, K) ==
    IF chain # <<>> /\ Head(chain) = K
    THEN StripLayers(Tail(chain), K)
    ELSE chain

\* A plausible slip: the wrapper layers left after the two loops are skipped
\* instead of being refused.
get_nesting_type_DropLayers(chain, names) ==
    LET afterArrays == StripLayers(chain, "ArrayDecl")
        c_obj_array_layers == Len(chain) - Len(afterArrays)
        afterPtrs == StripLayers(afterArrays, "PtrDecl")
        c_obj_pointer_layers == Len(afterArrays) - Len(afterPtrs)
        child_node == SelectSeq(afterPtrs, LAMBDA n : n \notin {"ArrayDecl", "PtrDecl", "Typename"})
    IN  IF child_node # <<>> /\ Head(child_node) = "TypeDecl"
        THEN LET parent_type == child_node[2] IN
             IF parent_type = "Struct"
             THEN [raised |-> "", type |-> <<"struct ", names[1]>>,
                   array_layers |-> c_obj_array_layers,
                   pointer_layers |-> c_obj_pointer_layers]
             ELSE IF parent_type = "IdentifierType"
             THEN [raised |-> "", type |-> <<names[1]>>,
                   array_layers |-> c_obj_array_layers,
                   pointer_layers |-> c_obj_pointer_layers]
             ELSE Raise("Exception")
        ELSE Raise("Exception")

get_nesting_type(chain, names) ==
    LET afterArrays == StripLayers(chain, "ArrayDecl")
        c_obj_array_layers == Len(chain) - Len(afterArrays)
        afterPtrs == StripLayers(afterArrays, "PtrDecl")
        c_obj_pointer_layers == Len(afterArrays) - Len(afterPtrs)
        child_node == IF afterPtrs # <<>> /\ Head(afterPtrs) = "Typename"
                      THEN Tail(afterPtrs)
                      ELSE afterPtrs
    IN  IF child_node # <<>> /\ Head(child_node) = "TypeDecl"
        THEN LET parent_type == child_node[2] IN
             IF parent_type = "Struct"
             THEN [raised |-> "", type |-> <<"struct ", names[1]>>,
                   array_layers |-> c_obj_array_layers,
                   pointer_layers |-> c_obj_pointer_layers]
             ELSE IF parent_type = "IdentifierType"
             THEN [raised |-> "", type |-> <<names[1]>>,
                   array_layers |-> c_obj_array_layers,
                   pointer_layers |-> c_obj_pointer_layers]
             ELSE Raise("Exception")
        ELSE Raise("Exception")

\* CObj(name, quals, align, storage, real_type, array_layers, pointer_layers)
CObj(name, quals, align, storage, real_type, array_layers, pointer_layers) ==
    [class |-> "CObj", name |-> name, quals |-> quals, align |-> align,
     storage |-> storage, type |-> real_type,
     array_layers |-> array_layers, pointer_layers |-> pointer_layers]

\* CFunc(name, quals, storge, funcspec, return_type, array_layers,
\*       pointer_layers, params); the base class gets align = "".
CFunc(name, quals, storge, funcspec, return_type, array_layers, pointer_layers, params) ==
    [class |-> "CFunc", name |-> name, quals |-> quals, align |-> <<>>,
     storage |-> storge, type |-> return_type,
     array_layers |-> array_layers, pointer_layers |-> pointer_layers,
     funcspec |-> funcspec, return_type |-> return_type, params |-> params]

\* The outcome of a conversion: the exception raised ("" for none) and the
\* object built.
Converted(obj) == [raised |-> "", obj |-> obj]

Failed(exc) == [raised |-> exc, obj |-> CObj("", <<>>, <<>>, <<>>, <<>>, 0, 0)]

RECURSIVE ast_to_c_obj(_)
RECURSIVE convert_params(_, _)

\* for param in node.type.args: c_obj_params.append(self._ast_to_c_obj(param))
\* with the first exception ending the loop.
convert_params(params, c_obj_params) ==
    IF params = <<>> THEN [raised |-> "", params |-> c_obj_params]
    ELSE LET r == ast_to_c_obj(Head(params)) IN
         IF r.raised # "" THEN [raised |-> r.raised, params |-> <<>>]
         ELSE convert_params(Tail(params), Append(c_obj_params, r.obj))

ast_to_c_obj(node) ==
    IF node.kind = "Decl" THEN
        IF Len(node.align) > 0
        THEN \* raise NotImplemented(...): NotImplemented is not callable
             Failed("TypeError")
        ELSE LET shape == Head(node.type) IN
        IF shape = "ArrayDecl" THEN
            LET t == get_nesting_type(node.type, node.names) IN
            IF t.raised # "" THEN Failed(t.raised)
            ELSE Converted(CObj(node.name, node.quals, <<>>, node.storage,
                                t.type, t.array_layers, t.pointer_layers))
        ELSE IF shape = "Decl" THEN Failed("Exception")
        ELSE IF shape = "Enum" THEN
            Converted(CObj(node.name, node.quals, <<>>, node.storage,
                           <<"enum ", node.names[1]>>, 0, 0))
        ELSE IF shape = "FuncDecl" THEN
            IF node.args.none
            THEN \* for param in None
                 Failed("TypeError")
            ELSE LET ps == convert_params(node.args.params, <<>>) IN
                 IF ps.raised # "" THEN Failed(ps.raised)
                 ELSE LET t == get_nesting_type(Tail(node.type), node.names) IN
                      IF t.raised # "" THEN Failed(t.raised)
                      ELSE Converted(CFunc(node.name, node.quals, node.storage,
                                           node.funcspec, t.type,
                                           t.array_layers, t.pointer_layers,
                                           ps.params))
        ELSE IF shape \in {"PtrDecl", "TypeDecl"} THEN
            LET t == get_nesting_type(node.type, node.names) IN
            IF t.raised # "" THEN Failed(t.raised)
            ELSE Converted(CObj(node.name, node.quals, <<>>, node.storage,
                                t.type, t.array_layers, t.pointer_layers))
        ELSE \* Typename: raise Exception("TODO."); anything else: raise Exception
             Failed("Exception")
    ELSE IF node.kind = "TypeDecl" THEN
        LET t == get_nesting_type(<<"TypeDecl">> \o node.type, node.names) IN
        IF t.raised # "" THEN Failed(t.raised)
        ELSE Converted(CObj("", <<>>, <<>>, <<>>,
                            t.type, t.array_layers, t.pointer_layers))
    ELSE IF node.kind = "Typename" THEN
        IF Head(node.type) = "TypeDecl"
        THEN LET t == get_nesting_type(<<"Typename">> \o node.type, node.names) IN
             IF t.raised # "" THEN Failed(t.raised)
             ELSE Converted(CObj(node.name, node.quals, <<>>, <<>>,
                                 t.type, t.array_layers, t.pointer_layers))
        ELSE Failed("Exception")
    ELSE IF node.kind = "EllipsisParam" THEN Failed("EllipsisParamException")
    ELSE Failed("TypeError")

\* for func in target_list: if func_name == func.name
InList(func_name, target_list) ==
    \E k \in 1..Len(target_list) : target_list[k].name = func_name

\* A plausible slip: a later node with a name already in the list replaces
\* the Function kept for that name.
add_to_func_list_Overwrite(func_node, target_list) ==
    LET r == ast_to_c_obj(func_node) IN
    IF r.raised \in ParserNotImplementedError
    THEN [raised |-> "", list |-> target_list]
    ELSE IF r.raised # ""
    THEN [raised |-> r.raised, list |-> target_list]
    ELSE IF r.obj.class # "CFunc"
    THEN [raised |-> "", list |-> target_list]
    ELSE IF InList(func_node.name, target_list)
    THEN [raised |-> "",
          list |-> [k \in 1..Len(target_list) |->
                       IF target_list[k].name = func_node.name THEN r.obj ELSE target_list[k]]]
    ELSE [raised |-> "", list |-> Append(target_list, r.obj)]

\* A plausible slip: the except clause is missing, every exception escapes.
add_to_func_list_NoExcept(func_node, target_list) ==
    IF InList(func_node.name, target_list)
    THEN [raised |-> "", list |-> target_list]
    ELSE LET r == ast_to_c_obj(func_node) IN
         IF r.raised # ""
         THEN [raised |-> r.raised, list |-> target_list]
         ELSE IF r.obj.class = "CFunc"
         THEN [raised |-> "", list |-> Append(target_list, r.obj)]
         ELSE [raised |-> "", list |-> target_list]

\* A plausible slip: the except clause catches every exception.
add_to_func_list_CatchAll(func_node, target_list) ==
    IF InList(func_node.name, target_list)
    THEN [raised |-> "", list |-> target_list]
    ELSE LET r == ast_to_c_obj(func_node) IN
         IF r.raised # ""
         THEN [raised |-> "", list |-> target_list]
         ELSE IF r.obj.class = "CFunc"
         THEN [raised |-> "", list |-> Append(target_list, r.obj)]
         ELSE [raised |-> "", list |-> target_list]

\* The outcome of _add_to_func_list: the exception that escapes it ("" for
\* none) and target_list afterwards.
add_to_func_list(func_node, target_list) ==
    IF InList(func_node.name, target_list)
    THEN [raised |-> "", list |-> target_list]
    ELSE LET r == ast_to_c_obj(func_node) IN
         IF r.raised \in ParserNotImplementedError
         THEN \* caught, func stays None
              [raised |-> "", list |-> target_list]
         ELSE IF r.raised # ""
         THEN [raised |-> r.raised, list |-> target_list]
         ELSE IF r.obj.class = "CFunc"
         THEN [raised |-> "", list |-> Append(target_list, r.obj)]
         ELSE [raised |-> "", list |-> target_list]

(***************************************************************************)
(* The inputs: syntax-tree nodes as pycparser builds them.                 *)
(***************************************************************************)
Node(kind, name, quals, align, storage, funcspec, type, names, args) ==
    [kind |-> kind, name |-> name, quals |-> quals, align |-> align,
     storage |-> storage, funcspec |-> funcspec, type |-> type,
     names |-> names, args |-> args]

\* Parameter nodes.
\* (void)
P_void == Node("Typename", None, <<>>, <<>>, <<>>, <<>>,
               <<"TypeDecl", "IdentifierType">>, <<"void">>, NoArgs)

\* int a
P_int_a == Node("Decl", "a", <<>>, <<>>, <<>>, <<>>,
                <<"TypeDecl", "IdentifierType">>, <<"int">>, NoArgs)

\* char b[]
P_char_b == Node("Decl", "b", <<>>, <<>>, <<>>, <<>>,
                 <<"ArrayDecl", "TypeDecl", "IdentifierType">>, <<"char">>,
                 NoArgs)

\* ...
P_ellipsis == Node("EllipsisParam", None, <<>>, <<>>, <<>>, <<>>,
                   <<>>, <<>>, NoArgs)

\* union U u
P_union_u == Node("Decl", "u", <<>>, <<>>, <<>>, <<>>,
                  <<"TypeDecl", "Union">>, <<"U">>, NoArgs)

\* Prototypes, each under a name n.
\* void n(int a, char b[]);
Proto_void_int_char(n) ==
    Node("Decl", n, <<>>, <<>>, <<>>, <<>>,
         <<"FuncDecl", "TypeDecl", "IdentifierType">>, <<"void">>,
         ParamList(<<P_int_a, P_char_b>>))

\* extern struct S *n(void);
Proto_structptr_void(n) ==
    Node("Decl", n, <<>>, <<>>, <<"extern">>, <<>>,
         <<"FuncDecl", "PtrDecl", "TypeDecl", "Struct">>, <<"S">>,
         ParamList(<<P_void>>))

\* void n(int a, ...);
Proto_ellipsis(n) ==
    Node("Decl", n, <<>>, <<>>, <<>>, <<>>,
         <<"FuncDecl", "TypeDecl", "IdentifierType">>, <<"void">>,
         ParamList(<<P_int_a, P_ellipsis>>))

\* _Alignas(8) void n(void);
Proto_align(n) ==
    Node("Decl", n, <<>>, <<"8">>, <<>>, <<>>,
         <<"FuncDecl", "TypeDecl", "IdentifierType">>, <<"void">>,
         ParamList(<<P_void>>))

\* inline _Noreturn void n();
Proto_noargs(n) ==
    Node("Decl", n, <<>>, <<>>, <<>>, <<"inline", "_Noreturn">>,
         <<"FuncDecl", "TypeDecl", "IdentifierType">>, <<"void">>, NoArgs)

\* void n(union U u);
Proto_union(n) ==
    Node("Decl", n, <<>>, <<>>, <<>>, <<>>,
         <<"FuncDecl", "TypeDecl", "IdentifierType">>, <<"void">>,
         ParamList(<<P_union_u>>))

\* static int n(int a) { ... }
Def_int_int(n) ==
    Node("FuncDef", n, <<>>, <<>>, <<"static">>, <<>>,
         <<"FuncDecl", "TypeDecl", "IdentifierType">>, <<"int">>,
         ParamList(<<P_int_a>>))

\* int n;
Var_int(n) ==
    Node("Decl", n, <<>>, <<>>, <<>>, <<>>,
         <<"TypeDecl", "IdentifierType">>, <<"int">>, NoArgs)

\* struct S { ... };
Decl_struct ==
    Node("Decl", None, <<>>, <<>>, <<>>, <<>>, <<"Struct">>, <<"S">>, NoArgs)

\* enum E { ... };
Decl_enum ==
    Node("Decl", None, <<>>, <<>>, <<>>, <<>>, <<"Enum">>, <<"E">>, NoArgs)

\* typedef int n;
Typedef_int(n) ==
    Node("Typedef", n, <<>>, <<>>, <<"typedef">>, <<>>,
         <<"TypeDecl", "IdentifierType">>, <<"int">>, NoArgs)

\* The top-level nodes of the translation units walked: every prototype and
\* definition above under the name f, the convertible ones and the variadic
\* one under g, a variadic h, and four nodes that are no function nodes.
TopNodes ==
    {Proto_void_int_char("f"), Proto_structptr_void("f"), Proto_ellipsis("f"),
     Proto_align("f"), Proto_noargs("f"), Proto_union("f"), Def_int_int("f")}
    \cup {Proto_void_int_char("g"), Proto_structptr_void("g"), Proto_ellipsis("g"),
          Def_int_int("g"), Proto_ellipsis("h")}
    \cup {Var_int("g"), Decl_struct, Decl_enum, Typedef_int("f")}

TranslationUnits == UNION {[1..n -> TopNodes] : n \in 0..MaxExt}

(***************************************************************************)
(* Parser._parse_ast, one top-level node per step.                         *)
(***************************************************************************)
\* node.decl of a FuncDef
decl(node) == [node EXCEPT !.kind = "Decl"]

\* isinstance(node, FuncDef)
IsFuncDef(node) == node.kind = "FuncDef"

\* A plausible slip: the test of the declared type is missing, every Decl
\* is taken for a prototype.
IsFuncDecl_AnyDecl(node) == node.kind = "Decl"

\* isinstance(node, Decl) and isinstance(node.type, FuncDecl)
IsFuncDecl(node) == node.kind = "Decl" /\ Head(node.type) = "FuncDecl"

AddStep(func_node) ==
    LET r == add_to_func_list(func_node, func_list) IN
    IF r.raised # ""
    THEN /\ status' = "raised"
         /\ UNCHANGED <<idx, func_list>>
    ELSE /\ func_list' = r.list
         /\ idx' = idx + 1
         /\ UNCHANGED status

ParseFuncDef ==
    /\ status = "walking"
    /\ idx <= Len(ext)
    /\ IsFuncDef(ext[idx])
    /\ AddStep(decl(ext[idx]))
    /\ UNCHANGED <<ext, renderVars>>

ParseFuncDecl ==
    /\ status = "walking"
    /\ idx <= Len(ext)
    /\ ~IsFuncDef(ext[idx])
    /\ IsFuncDecl(ext[idx])
    /\ AddStep(ext[idx])
    /\ UNCHANGED <<ext, renderVars>>

SkipNode ==
    /\ status = "walking"
    /\ idx <= Len(ext)
    /\ ~IsFuncDef(ext[idx])
    /\ ~IsFuncDecl(ext[idx])
    /\ idx' = idx + 1
    /\ UNCHANGED <<ext, func_list, status, renderVars>>

ReturnFuncList ==
    /\ status = "walking"
    /\ idx > Len(ext)
    /\ status' = "returned"
    /\ UNCHANGED <<ext, idx, func_list, renderVars>>

NoCall == [op |-> "none", space_before_ptr |-> FALSE, array_as_ptr |-> FALSE,
           space_after_ptr |-> FALSE, semicolon |-> FALSE,
           with_array |-> FALSE]

Init ==
    /\ ext \in TranslationUnits
    /\ idx = 1
    /\ func_list = <<>>
    /\ status = "walking"
    /\ self = CObj("", <<>>, <<>>, <<>>, <<>>, 0, 0)
    /\ call = NoCall
    /\ out = <<>>

Next == ParseFuncDef \/ ParseFuncDecl \/ SkipNode \/ ReturnFuncList

Spec == Init /\ [][Next]_vars

(***************************************************************************)
(* Rendering a Declaration: the methods of CObj applied to one object.     *)
(***************************************************************************)
Depths == 0..MaxLayers

\* The Declarations rendered: const/static or plain, of type void, int or
\* struct S, under every pointer and array depth up to MaxLayers.
Declarations ==
    {CObj("a", q, <<>>, st, t, al, pl) :
        q \in {<<>>, <<"const">>}, st \in {<<>>, <<"static">>},
        t \in {<<"void">>, <<"int">>, <<"struct ", "S">>},
        al \in Depths, pl \in Depths}

Called(op, space_before_ptr, array_as_ptr, space_after_ptr, semicolon, with_array) ==
    [op |-> op, space_before_ptr |-> space_before_ptr,
     array_as_ptr |-> array_as_ptr, space_after_ptr |-> space_after_ptr,
     semicolon |-> semicolon, with_array |-> with_array]

TypeToStr ==
    /\ self.class = "CObj"
    /\ \E space_before_ptr \in BOOLEAN, array_as_ptr \in BOOLEAN :
          /\ out' = type_to_str(self, space_before_ptr, array_as_ptr)
          /\ call' = Called("type_to_str", space_before_ptr, array_as_ptr,
                            FALSE, FALSE, FALSE)
    /\ UNCHANGED <<self, parserVars>>

NameToStr ==
    /\ self.class = "CObj"
    /\ \E with_array \in BOOLEAN :
          /\ out' = name_to_str(self, with_array)
          /\ call' = Called("name_to_str", FALSE, FALSE, FALSE, FALSE,
                            with_array)
    /\ UNCHANGED <<self, parserVars>>

ToStr ==
    /\ self.class = "CObj"
    /\ \E space_before_ptr \in BOOLEAN, array_as_ptr \in BOOLEAN,
          space_after_ptr \in BOOLEAN, semicolon \in BOOLEAN,
          with_array \in BOOLEAN :
          /\ out' = to_str(self, space_before_ptr, array_as_ptr,
                           space_after_ptr, semicolon, with_array)
          /\ call' = Called("to_str", space_before_ptr, array_as_ptr,
                            space_after_ptr, semicolon, with_array)
    /\ UNCHANGED <<self, parserVars>>

\* str(obj): to_str() with no argument given.
Str ==
    /\ self.class = "CObj"
    /\ out' = CObj_str(self)
    /\ call' = Called("__str__", FALSE, FALSE, FALSE, FALSE, FALSE)
    /\ UNCHANGED <<self, parserVars>>

InitObj ==
    /\ ext = <<>>
    /\ idx = 1
    /\ func_list = <<>>
    /\ status = "idle"
    /\ self \in Declarations
    /\ call = NoCall
    /\ out = <<>>

NextObj == TypeToStr \/ NameToStr \/ ToStr \/ Str

SpecObj == InitObj /\ [][NextObj]_vars

(***************************************************************************)
(* Rendering a Function: the methods of CFunc applied to one object.       *)
(***************************************************************************)
\* (array_layers, pointer_layers) pairs of a Function or a parameter.
FuncDepths ==
    {d \in (0..MaxFuncLayers) \X (0..MaxFuncLayers) : d[1] + d[2] <= MaxFuncLayers}

\* The i-th parameter is named by its position.
ParamName(i) == <<"a", "b", "c", "d">>[i]

ParamLists ==
    UNION {{[i \in 1..n |-> CObj(ParamName(i), <<>>, <<>>, <<>>, t[i],
                                 d[i][1], d[i][2])] :
              t \in [1..n -> {<<"void">>, <<"int">>}],
              d \in [1..n -> FuncDepths]}
           : n \in 0..MaxParams}

\* quals, storage and funcspec of the Functions rendered.
Prefixes ==
    {<< <<>>, <<>>, <<>> >>,
     << <<"const">>, <<"static">>, <<"inline", "_Noreturn">> >>}

Functions ==
    {CFunc("func", pre[1], pre[2], pre[3], t, d[1], d[2], ps) :
        pre \in Prefixes, t \in {<<"void">>, <<"int">>},
        d \in FuncDepths, ps \in ParamLists}

FuncToStr ==
    /\ self.class = "CFunc"
    /\ \E semicolon \in BOOLEAN :
          /\ out' = CFunc_to_str(self, semicolon)
          /\ call' = Called("to_str", FALSE, FALSE, FALSE, semicolon, FALSE)
    /\ UNCHANGED <<self, parserVars>>

FuncStr ==
    /\ self.class = "CFunc"
    /\ out' = CFunc_str(self)
    /\ call' = Called("__str__", FALSE, FALSE, FALSE, FALSE, FALSE)
    /\ UNCHANGED <<self, parserVars>>

FuncspecToStr ==
    /\ self.class = "CFunc"
    /\ out' = funcspec_to_str(self)
    /\ call' = Called("funcspec_to_str", FALSE, FALSE, FALSE, FALSE, FALSE)
    /\ UNCHANGED <<self, parserVars>>

ParamsToStr ==
    /\ self.class = "CFunc"
    /\ out' = params_to_str(self)
    /\ call' = Called("params_to_str", FALSE, FALSE, FALSE, FALSE, FALSE)
    /\ UNCHANGED <<self, parserVars>>

GetReturnType ==
    /\ self.class = "CFunc"
    /\ out' = get_return_type(self)
    /\ call' = Called("get_return_type", FALSE, FALSE, FALSE, FALSE, FALSE)
    /\ UNCHANGED <<self, parserVars>>

GenFuncCall ==
    /\ self.class = "CFunc"
    /\ out' = gen_func_call(self)
    /\ call' = Called("gen_func_call", FALSE, FALSE, FALSE, FALSE, FALSE)
    /\ UNCHANGED <<self, parserVars>>

InitFunc ==
    /\ ext = <<>>
    /\ idx = 1
    /\ func_list = <<>>
    /\ status = "idle"
    /\ self \in Functions
    /\ call = NoCall
    /\ out = <<>>

NextFunc ==
    \/ FuncToStr
    \/ FuncStr
    \/ FuncspecToStr
    \/ ParamsToStr
    \/ GetReturnType
    \/ GenFuncCall

SpecFunc == InitFunc /\ [][NextFunc]_vars

(***************************************************************************)
(* Properties of the renderers.                                            *)
(***************************************************************************)
\* A run of d asterisks.
Asterisks(d) == [i \in 1..d |-> "*"]

\* k pairs of array brackets.
Brackets(k) == [i \in 1..k |-> "[]"]

\* The asterisk count render_type is to show under the call's flags.
ShownDepth == IF call.array_as_ptr THEN self.pointer_layers + self.array_layers ELSE self.pointer_layers

\* C7: render_type returns base_type, then one space iff space_before_pointer
\* and the asterisk count d is positive, then exactly d asterisks, where d is
\* pointer_depth (+ array_depth if treat_array_as_pointer); the call leaves
\* the Declaration as it was.
C7_RenderType ==
    [][call'.op = "type_to_str" =>
          /\ out' = self'.type
                    \o (IF call'.space_before_ptr /\ ShownDepth' > 0 THEN <<" ">> ELSE <<>>)
                    \o Asterisks(ShownDepth')
          /\ self' = self]_vars

C7_Witness ==
    /\ call.op = "type_to_str"
    /\ call.array_as_ptr
    /\ call.space_before_ptr
    /\ self.array_layers > 0
    /\ self.pointer_layers > 0
    /\ out = self.type \o <<" ">> \o Asterisks(self.pointer_layers + self.array_layers)

\* The Declaration of `void *a[];`.
VoidPtrArray == CObj("a", <<>>, <<>>, <<>>, <<"void">>, 1, 1)

\* render_declaration called with every flag at its default value.
DefaultToStr ==
    \/ call.op = "__str__"
    \/ call = Called("to_str", TRUE, FALSE, FALSE, FALSE, FALSE)

\* C8 as stated: the default rendering of `void *a[];` is "void *a[]".
C8_Original ==
    (self = VoidPtrArray /\ DefaultToStr) => out = <<"void", " ", "*", "a", "[]">>

\* C8, amended: the default rendering of `void *a[];` is "void *a"; the
\* brackets are shown when with_array is set, the other flags at their
\* defaults: "void *a[]".
C8_Amended ==
    /\ (self = VoidPtrArray /\ DefaultToStr) => out = <<"void", " ", "*", "a">>
    /\ (self = VoidPtrArray /\ call = Called("to_str", TRUE, FALSE, FALSE, FALSE, TRUE))
          => out = <<"void", " ", "*", "a", "[]">>

C8_Witness ==
    /\ self = VoidPtrArray
    /\ call.op = "__str__"
    /\ out = <<"void", " ", "*", "a">>

\* The rendered name occurs in text: the name and, when with_array, its
\* array_depth bracket pairs right after it.
HasName(text, obj, with_array) ==
    \E i \in 1..Len(text) :
        /\ text[i] = obj.name
        /\ with_array =>
              /\ i + obj.array_layers <= Len(text)
              /\ \A k \in 1..obj.array_layers : text[i + k] = "[]"

\* The text without its trailing semicolon.
NoSemicolon(text) ==
    IF Len(text) > 0 /\ text[Len(text)] = ";" THEN SubSeq(text, 1, Len(text) - 1) ELSE text

\* The type part of the text is just "void" and no name follows it.
JustVoid(text, obj) ==
    /\ \A i \in 1..Len(text) : text[i] # obj.name
    /\ Len(NoSemicolon(text)) > 0
    /\ NoSemicolon(text)[Len(NoSemicolon(text))] = "void"

RenderedType(obj) ==
    obj.type \o (IF obj.pointer_layers > 0 THEN <<" ">> \o Asterisks(obj.pointer_layers) ELSE <<>>)

\* A parameter's declaration rendered with array brackets: qualifiers and
\* storage first, then just "void" for a bare void, else the type and the
\* name with its brackets, no space after an asterisk.
RenderedParam(obj) ==
    (IF obj.quals # <<>> THEN JoinSpace(obj.quals) \o <<" ">> ELSE <<>>)
    \o (IF obj.storage # <<>> THEN JoinSpace(obj.storage) \o <<" ">> ELSE <<>>)
    \o (IF obj.type = <<"void">> /\ obj.pointer_layers = 0 THEN <<"void">>
        ELSE RenderedType(obj)
             \o (IF obj.pointer_layers > 0 THEN <<>> ELSE <<" ">>)
             \o <<obj.name>> \o Brackets(obj.array_layers))

\* The ", "-join of the parameters' renderings.
RenderedParams(func) ==
    JoinComma([i \in 1..Len(func.params) |-> RenderedParam(func.params[i])])

\* render_signature was called; its trailing_semicolon argument.
SignatureCalled == self.class = "CFunc" /\ call.op \in {"to_str", "__str__"}

TrailingSemicolon == call.op = "__str__" \/ call.semicolon

RECURSIVE CallArguments(_)
CallArguments(params) ==
    IF params = <<>> THEN <<>>
    ELSE IF RenderedType(Head(params)) # <<"void">>
    THEN << <<Head(params).name>> >> \o CallArguments(Tail(params))
    ELSE CallArguments(Tail(params))

\* C5: synthesize_call_site returns name + "(" + A + ");", A the ", "-join
\* of the names of the parameters whose rendered type is not "void", with
\* rendered_type + " ret = " in front iff the function's rendered type is
\* not "void".
C5_CallSite ==
    (self.class = "CFunc" /\ call.op = "gen_func_call") =>
        out = (IF RenderedType(self) # <<"void">> THEN RenderedType(self) \o <<" ret = ">> ELSE <<>>)
              \o <<self.name>> \o <<"(">> \o JoinComma(CallArguments(self.params)) \o <<");">>

(***************************************************************************)
(* Properties of the tree-walk.                                            *)
(***************************************************************************)
\* A top-level function node: a function definition, or a declaration
\* whose declared type is a function declarator.
FunctionNode(node) ==
    \/ node.kind = "FuncDef"
    \/ node.kind = "Decl" /\ node.type[1] = "FuncDecl"

\* The conversion of a top-level node's declaration.
Conversion(node) == ast_to_c_obj([node EXCEPT !.kind = "Decl"])

\* The node converts to a Function.
Convertible(node) ==
    /\ FunctionNode(node)
    /\ Conversion(node).raised = ""
    /\ Conversion(node).obj.class = "CFunc"

\* The node's conversion fails with a "not implemented" kind of error.
NotImplementedFailure(node) ==
    /\ FunctionNode(node)
    /\ Conversion(node).raised \in {"ParserNotImplementedError", "EllipsisParamException"}

\* The node's conversion fails with any other error.
FatalFailure(node) ==
    /\ FunctionNode(node)
    /\ Conversion(node).raised \in {"TypeError", "Exception"}

\* A Function of the name of node i is in the list when the walk reaches i.
NameTaken(i) ==
    \E j \in 1..(i - 1) : Convertible(ext[j]) /\ ext[j].name = ext[i].name

\* The nodes the walk has dealt with.
Visited == 1..(idx - 1)

\* The list holds at most one Function per name.
UniqueNames ==
    \A k, l \in 1..Len(func_list) : func_list[k].name = func_list[l].name => k = l

\* C1 as stated: at most one Function per name, and the Function kept for
\* a name is the one built from the first top-level function node carrying
\* that name.
C1_Original ==
    /\ UniqueNames
    /\ \A k \in 1..Len(func_list) :
          \E i \in Visited :
              /\ FunctionNode(ext[i])
              /\ ext[i].name = func_list[k].name
              /\ \A j \in 1..(i - 1) : ~(FunctionNode(ext[j]) /\ ext[j].name = ext[i].name)
              /\ Conversion(ext[i]).raised = ""
              /\ func_list[k] = Conversion(ext[i]).obj

\* C1, amended: at most one Function per name, and the Function kept for a
\* name is the one built from the first top-level function node carrying
\* that name that converts to a Function; every name with such a node among
\* the visited ones is in the list.
C1_Amended ==
    /\ UniqueNames
    /\ \A k \in 1..Len(func_list) :
          \E i \in Visited :
              /\ Convertible(ext[i])
              /\ ext[i].name = func_list[k].name
              /\ ~NameTaken(i)
              /\ func_list[k] = Conversion(ext[i]).obj
    /\ \A i \in Visited :
          Convertible(ext[i]) => \E k \in 1..Len(func_list) : func_list[k].name = ext[i].name

C1_Witness ==
    /\ status = "returned"
    /\ Len(ext) = 3
    /\ NotImplementedFailure(ext[1])
    /\ Convertible(ext[2])
    /\ Convertible(ext[3])
    /\ ext[1].name = ext[2].name
    /\ ext[2].name = ext[3].name
    /\ ext[2] # ext[3]
    /\ func_list = <<Conversion(ext[2]).obj>>

\* The Functions of the first m nodes, in source order: the conversions of
\* the convertible nodes whose name no earlier convertible node carries.
RECURSIVE ValidFunctions(_)
ValidFunctions(m) ==
    IF m = 0 THEN <<>>
    ELSE IF Convertible(ext[m]) /\ ~NameTaken(m)
    THEN Append(ValidFunctions(m - 1), Conversion(ext[m]).obj)
    ELSE ValidFunctions(m - 1)

\* C2: a function whose conversion fails with a "not implemented" kind of
\* error does not end the walk, and once the walk is past it the list is the
\* valid functions of the nodes visited, before and after it, in source
\* order, with nothing from the failing node.
C2_NotImplementedSkipped ==
    \A i \in 1..Len(ext) :
        (NotImplementedFailure(ext[i]) /\ ~NameTaken(i)) =>
            /\ ~(status = "raised" /\ idx = i)
            /\ (idx > i => func_list = ValidFunctions(idx - 1))
            /\ (status = "returned" => func_list = ValidFunctions(Len(ext)))

C2_Witness ==
    /\ status = "returned"
    /\ Len(ext) = 3
    /\ Convertible(ext[1])
    /\ NotImplementedFailure(ext[2])
    /\ Convertible(ext[3])
    /\ ext[1].name # ext[2].name
    /\ ext[2].name # ext[3].name
    /\ ext[1].name # ext[3].name
    /\ func_list = <<Conversion(ext[1]).obj, Conversion(ext[3]).obj>>

\* C3: a conversion failure that is not of the "not implemented" kind is
\* not caught: the step that reaches the node raises, the walk never gets
\* past the node and the caller is never returned a list.
C3_FatalAborts ==
    /\ [](\A i \in 1..Len(ext) :
             (FatalFailure(ext[i]) /\ ~NameTaken(i)) => (idx <= i /\ status # "returned"))
    /\ [][(/\ status = "walking"
           /\ idx <= Len(ext)
           /\ FatalFailure(ext[idx])
           /\ ~NameTaken(idx)) => status' = "raised"]_vars

C3_Witness ==
    /\ status = "raised"
    /\ Len(func_list) > 0
    /\ idx = 3
    /\ Len(ext[idx].align) > 0
    /\ FatalFailure(ext[idx])
    /\ ext[1].name # ext[idx].name
    /\ ext[2].name # ext[idx].name

\* C6: extracting a prototype with an empty parameter list, `inline
\* _Noreturn void n();`, succeeds and yields a Function with zero
\* parameters, whose function specifiers render as "inline _Noreturn", whose
\* parameters render as the empty text and whose call site is "n();".
C6_EmptyParameterList ==
    \A i \in 1..Len(ext) :
        (ext[i] = Proto_noargs(ext[i].name) /\ ~NameTaken(i)) =>
            /\ ~(status = "raised" /\ idx = i)
            /\ idx > i =>
                  \E k \in 1..Len(func_list) :
                      /\ func_list[k].name = ext[i].name
                      /\ func_list[k].params = <<>>
                      /\ funcspec_to_str(func_list[k]) = <<"inline", " ", "_Noreturn">>
                      /\ params_to_str(func_list[k]) = <<>>
                      /\ gen_func_call(func_list[k]) = <<ext[i].name, "(", ");">>

\* C9: a top-level node that is neither a function definition nor a
\* declaration of function type leaves the list unchanged and raises
\* nothing; every element of the list is a Function built from a function
\* node already visited, and the elements stand in the source order of
\* their nodes.
C9_OnlyFunctionNodes ==
    /\ [](/\ \A k \in 1..Len(func_list) :
                /\ func_list[k].class = "CFunc"
                /\ \E i \in Visited :
                      FunctionNode(ext[i]) /\ func_list[k] = Conversion(ext[i]).obj
          /\ \A k, l \in 1..Len(func_list) :
                k < l => \E i, j \in Visited :
                            /\ i < j
                            /\ FunctionNode(ext[i])
                            /\ FunctionNode(ext[j])
                            /\ func_list[k] = Conversion(ext[i]).obj
                            /\ func_list[l] = Conversion(ext[j]).obj)
    /\ [][(/\ status = "walking"
           /\ idx <= Len(ext)
           /\ ~FunctionNode(ext[idx]))
          => (func_list' = func_list /\ status' = "walking" /\ idx' = idx + 1)]_vars

C9_Witness ==
    /\ status = "returned"
    /\ Len(ext) = 3
    /\ Convertible(ext[1])
    /\ ext[2] = Decl_struct
    /\ Convertible(ext[3])
    /\ ext[1].name # ext[3].name
    /\ func_list = <<Conversion(ext[1]).obj, Conversion(ext[3]).obj>>

(***************************************************************************)
(* Resolving a type chain: Parser._get_nesting_type applied to one node.   *)
(* The node given is held in self, the list returned (or the exception     *)
(* raised) in out.                                                         *)
(***************************************************************************)
\* The runs of array-of and pointer-to layers, in every order.
WrapperRuns == UNION {[1..n -> {"ArrayDecl", "PtrDecl"}] : n \in 0..MaxChain}

\* The terminal nodes under the TypeDecl, each with its names: identifier
\* types of one, two and three name tokens, and tagged struct, union and
\* enum references.
Terminals ==
    {<<"IdentifierType", <<"int">> >>,
     <<"IdentifierType", <<"unsigned", "char">> >>,
     <<"IdentifierType", <<"long", "long", "int">> >>,
     <<"Struct", <<"S">> >>,
     <<"Union", <<"U">> >>,
     <<"Enum", <<"E">> >>}

TypeNode(chain, names) == [class |-> "Node", chain |-> chain, names |-> names]

\* The nodes _ast_to_c_obj hands over: a declarator chain down to its
\* TypeDecl, or a Typename right above a TypeDecl (lines 248-250).
TypeChains ==
    {TypeNode(w \o <<"TypeDecl", t[1]>>, t[2]) : w \in WrapperRuns, t \in Terminals}
    \cup {TypeNode(<<"Typename", "TypeDecl", t[1]>>, t[2]) : t \in Terminals}

GetNestingType ==
    /\ self.class = "Node"
    /\ call.op = "none"
    /\ out' = get_nesting_type(self.chain, self.names)
    /\ call' = Called("get_nesting_type", FALSE, FALSE, FALSE, FALSE, FALSE)
    /\ UNCHANGED <<self, parserVars>>

InitNesting ==
    /\ ext = <<>>
    /\ idx = 1
    /\ func_list = <<>>
    /\ status = "idle"
    /\ self \in TypeChains
    /\ call = NoCall
    /\ out = Raise("")

NextNesting == GetNestingType

SpecNesting == InitNesting /\ [][NextNesting]_vars

(***************************************************************************)
(* Properties of the Type-Chain Resolver.                                  *)
(***************************************************************************)
\* The number of layers of class K in a chain.
Layers(chain, K) == Cardinality({i \in 1..Len(chain) : chain[i] = K})

\* The resolver was called and returned a triple.
Resolved == call.op = "get_nesting_type" /\ out.raised = ""

\* The chain is k array layers, then m pointer layers, then a TypeDecl.
ArraysThenPointers(chain) ==
    \A i, j \in 1..Len(chain) :
        (chain[i] = "PtrDecl" /\ chain[j] = "ArrayDecl") => j < i

\* C11: the resolver either fails or returns the total number of array-of
\* layers as array_depth and the total number of pointer-to layers as
\* pointer_depth, dropping no layer; a chain of k array layers followed by m
\* pointer layers that ends in a struct or identifier type resolves, to
\* depths (k, m), a struct to the base type "struct " + tag.
C11_NoLayerDropped ==
    call.op = "get_nesting_type" =>
        /\ out.raised = "" =>
              /\ out.array_layers = Layers(self.chain, "ArrayDecl")
              /\ out.pointer_layers = Layers(self.chain, "PtrDecl")
        /\ (/\ ArraysThenPointers(self.chain)
            /\ self.chain[Len(self.chain)] \in {"Struct", "IdentifierType"}) =>
              /\ out.raised = ""
              /\ out.type # <<>>
              /\ self.chain[Len(self.chain)] = "Struct" => out.type = <<"struct ", self.names[1]>>

C11_Witness ==
    /\ Resolved
    /\ self.chain = <<"ArrayDecl", "ArrayDecl", "PtrDecl", "TypeDecl", "Struct">>
    /\ out.type = <<"struct ", "S">>
    /\ out.array_layers = 2
    /\ out.pointer_layers = 1

\* The resolver refuses a chain whose pointer layer stands outside an array
\* layer.
C11_MixedChainFails ==
    /\ call.op = "get_nesting_type"
    /\ self.chain = <<"PtrDecl", "ArrayDecl", "TypeDecl", "IdentifierType">>
    /\ out.raised = "Exception"

\* The identifier text of an IdentifierType: its name tokens, one space
\* between them.
IdentifierText(names) == JoinSpace(names)

\* C12: when the terminal type is an identifier reference, base_type is the
\* whole identifier text, every name token kept.
C12_WholeIdentifier ==
    (Resolved /\ self.chain[Len(self.chain)] = "IdentifierType") =>
        out.type = IdentifierText(self.names)

====
